---- MODULE Spec2Model ----
(***************************************************************************)
(* A model of Rust-JVM's class-file reader (src/jvm/class.rs, Class::load) *)
(* and of its object layer (src/jvm/object.rs, JvmObject).                 *)
(*                                                                         *)
(* SpecLoad runs Class::load over a bounded set of class files; Spec runs  *)
(* JvmObject::new / instantiate / set_field / get_field / is_type_of and   *)
(* create_static_string_object over a bounded class path.                  *)
(***************************************************************************)
EXTENDS Integers, Sequences, FiniteSets, TLC

VARIABLES
    \* ---- Class::load ----
    file,          \* the content of the class file, or NoFile
    lpc,           \* the position of Class::load
    c,             \* the Class under construction (struct Class)
    offset,        \* the local `offset` of Class::load
    i,             \* the loop variable of the interfaces loop
    marks,         \* the offsets at which the sections were found to start
    \* ---- JvmObject ----
    disk,          \* the class path: class name -> class, or NoClass
    loaded,        \* the Method Area: names of the loaded classes
    initialized,   \* the classes maybe_initialize_class has initialized
    lock,          \* the holder of the Method Area mutex
    stack,         \* the nested calls of JvmObject::instantiate
    status,        \* the state of the thread
    obj,           \* the object (a sequence of layers) once instantiate returned
    calls,         \* how many times instantiate was entered
    events,        \* the log of the superclass steps of instantiate
    via,           \* who made the root object
    fatal,         \* the FatalErrorType raised, if any
    sets,          \* how many set_field calls were made
    last           \* the last query made on the object, with its result

lvars == <<file, lpc, c, offset, i, marks>>
ovars == <<disk, loaded, initialized, lock, stack, status, obj, calls, events,
           via, fatal, sets, last>>
vars == <<file, lpc, c, offset, i, marks, disk, loaded, initialized, lock,
          stack, status, obj, calls, events, via, fatal, sets, last>>

\* ------------------------------------------------------------------------
\* Bounds
\* ------------------------------------------------------------------------
MaxInterfaces == 2
MaxFields == 1
MaxSets == 1

\* ------------------------------------------------------------------------
\* Class files
\* ------------------------------------------------------------------------
NoFile == <<-1>>

\* The magic number a class file must start with, 0xCAFEBABE, as its two
\* 16-bit halves (0xCAFE, 0xBABE).
CafeBabe == <<51966, 47806>>

CafeBabeBytes == <<202, 254, 186, 190>>

RECURSIVE Flatten(_)
Flatten(ss) == IF ss = <<>> THEN <<>> ELSE Head(ss) \o Flatten(Tail(ss))

\* The bytes of a 16-bit value, big-endian.
BE16(v) == <<v \div 256, v % 256>>

\* Constant pools: empty; one Utf8; a Class and its Utf8; a Long (two slots).
PoolChoices ==
    { <<0, 1>>,
      <<0, 3, 7, 0, 2, 1, 0, 1, 65>>,
      <<0, 3, 5, 0, 0, 0, 0, 0, 0, 0, 1>> }

\* Field/method tables: none; one member with one attribute of one byte.
MemberChoices ==
    { <<0, 0>>,
      <<0, 1, 0, 1, 0, 2, 0, 2, 0, 1, 0, 2, 0, 0, 0, 1, 9>> }

AttributeChoices ==
    { <<0, 0>>,
      <<0, 1, 0, 2, 0, 0, 0, 2, 7, 7>> }

InterfaceValues == {258, 3}

InterfaceChoices ==
    UNION { [1..n -> InterfaceValues] : n \in 0..MaxInterfaces }

\* A well-formed class file but for its magic.
FileOf(mg, cp, ifs, fl, ms, as) ==
    mg \o <<0, 0, 0, 52>> \o cp \o <<0, 33>> \o <<0, 1>> \o <<0, 0>>
       \o BE16(Len(ifs)) \o Flatten([k \in 1..Len(ifs) |-> BE16(ifs[k])])
       \o fl \o ms \o as

WholeFiles ==
    { FileOf(mg, cp, ifs, fl, <<0, 0>>, as) :
        mg \in {CafeBabeBytes, <<0, 0, 0, 0>>}, cp \in PoolChoices,
        ifs \in InterfaceChoices, fl \in MemberChoices, as \in AttributeChoices }

\* Every file, whole or cut short.
Files == UNION { { SubSeq(f, 1, n) : n \in 0..Len(f) } : f \in WholeFiles }

\* ------------------------------------------------------------------------
\* Reading the bytes
\* ------------------------------------------------------------------------
\* c.bytes[off + k], the source's indices counting from 0.
Byte(b, off) == b[off + 1]

\* Whether bytes off .. off+n-1 exist; indexing past the end panics.
Has(b, off, n) == off + n <= Len(b)

\* (bytes[off] as u16) << 8 | (bytes[off+1] as u16)
U16(b, off) == Byte(b, off) * 256 + Byte(b, off + 1)

\* (bytes[off] as u32) << 24 | ... | (bytes[off+3] as u32) << 0, kept as its
\* two 16-bit halves <<high, low>>.
U32(b, off) == <<U16(b, off), U16(b, off + 2)>>

\* The result of a section reader that could not read its section.
Bad == -1

\* The bytes one constant takes after its tag, by tag; Bad for no tag.
ConstantLen(b, off) ==
    LET tag == Byte(b, off) IN
    IF tag = 1 THEN (IF Has(b, off, 3) THEN 3 + U16(b, off + 1) ELSE Bad)
    ELSE IF tag \in {3, 4, 9, 10, 11, 12, 18} THEN 5
    ELSE IF tag \in {5, 6} THEN 9
    ELSE IF tag \in {7, 8, 16} THEN 3
    ELSE IF tag = 15 THEN 4
    ELSE Bad

\* The offset after the constants idx .. count-1 that start at off.
RECURSIVE ConstantsEnd(_, _, _, _)
ConstantsEnd(b, off, idx, count) ==
    IF idx >= count THEN off
    ELSE IF ~Has(b, off, 1) THEN Bad
    ELSE LET n == ConstantLen(b, off) IN
         IF n = Bad \/ ~Has(b, off, n) THEN Bad
         ELSE ConstantsEnd(b, off + n,
                           idx + (IF Byte(b, off) \in {5, 6} THEN 2 ELSE 1), count)

\* ConstantPool::from(bytes[off..]) and byte_len(): the offset after the pool.
ConstantPoolEnd(b, off) ==
    IF ~Has(b, off, 2) THEN Bad
    ELSE ConstantsEnd(b, off + 2, 1, U16(b, off))

\* The offset after n attributes that start at off.
RECURSIVE AttributeListEnd(_, _, _)
AttributeListEnd(b, off, n) ==
    IF n = 0 THEN off
    ELSE IF ~Has(b, off, 6) THEN Bad
    ELSE LET len == U32(b, off + 2) IN
         \* a length of 65536 or more is longer than any file here
         IF len[1] > 0 \/ ~Has(b, off + 6, len[2]) THEN Bad
         ELSE AttributeListEnd(b, off + 6 + len[2], n - 1)

\* Attributes::from(bytes[off..]) and byte_len(): the offset after the table.
AttributesEnd(b, off) ==
    IF ~Has(b, off, 2) THEN Bad
    ELSE AttributeListEnd(b, off + 2, U16(b, off))

\* The offset after n field or method infos that start at off.
RECURSIVE MemberListEnd(_, _, _)
MemberListEnd(b, off, n) ==
    IF n = 0 THEN off
    ELSE IF ~Has(b, off, 6) THEN Bad
    ELSE LET e == AttributesEnd(b, off + 6) IN
         IF e = Bad THEN Bad ELSE MemberListEnd(b, e, n - 1)

\* Fields::from / Methods::from and byte_len(): the offset after the table.
MembersEnd(b, off) ==
    IF ~Has(b, off, 2) THEN Bad
    ELSE MemberListEnd(b, off + 2, U16(b, off))

\* ------------------------------------------------------------------------
\* Class::load
\* ------------------------------------------------------------------------
\* Class::default()
DefaultClass ==
    [ magic |-> <<0, 0>>, minor_version |-> 0, major_version |-> 0,
      access_flags |-> 0, this_class |-> 0, super_class |-> 0,
      interfaces_count |-> 0, interfaces |-> <<>> ]

NoMarks ==
    [ pool_end |-> Bad, fields |-> Bad, methods |-> Bad, attributes |-> Bad,
      end |-> Bad ]

InitLoadVars ==
    /\ lpc = "open"
    /\ c = DefaultClass
    /\ offset = 0
    /\ i = 0
    /\ marks = NoMarks

\* The first index of the interfaces loop: `for i in 1 .. interfaces_count`.
InterfacesFirst == 1

\* fs::File::open and read_to_end: a missing file makes load return None.
Open ==
    /\ lpc = "open"
    /\ lpc' = IF file = NoFile THEN "none" ELSE "magic"
    /\ UNCHANGED <<file, c, offset, i, marks>>
    /\ UNCHANGED ovars

\* Reads a big-endian field of n bytes at offset into c.fld and moves on to
\* `next`; an index past the end of bytes panics.
ReadField(at, next, fld, n) ==
    /\ lpc = at
    /\ IF Has(file, offset, n)
       THEN /\ c' = [c EXCEPT ![fld] =
                        IF n = 4 THEN U32(file, offset) ELSE U16(file, offset)]
            /\ offset' = offset + n
            /\ lpc' = next
       ELSE /\ lpc' = "panic"
            /\ UNCHANGED <<c, offset>>
    /\ UNCHANGED <<file, i, marks>>
    /\ UNCHANGED ovars

ReadMagic == ReadField("magic", "minor", "magic", 4)

ReadMinor == ReadField("minor", "major", "minor_version", 2)

ReadMajor == ReadField("major", "pool", "major_version", 2)

\* offset = Class::load_constant_pool(&mut c, offset)
LoadConstantPool ==
    /\ lpc = "pool"
    /\ LET e == ConstantPoolEnd(file, offset) IN
       IF e = Bad
       THEN /\ lpc' = "panic"
            /\ UNCHANGED <<offset, marks>>
       ELSE /\ lpc' = "access"
            /\ offset' = e
            /\ marks' = [marks EXCEPT !.pool_end = e]
    /\ UNCHANGED <<file, c, i>>
    /\ UNCHANGED ovars

ReadAccessFlags == ReadField("access", "this", "access_flags", 2)

ReadThisClass == ReadField("this", "super", "this_class", 2)

ReadSuperClass == ReadField("super", "icount", "super_class", 2)

\* interfaces_count, then interfaces = repeat(0).take(interfaces_count)
ReadInterfacesCount ==
    /\ lpc = "icount"
    /\ IF Has(file, offset, 2)
       THEN /\ c' = [c EXCEPT !.interfaces_count = U16(file, offset),
                              !.interfaces = [k \in 1..U16(file, offset) |-> 0]]
            /\ offset' = offset + 2
            /\ i' = InterfacesFirst
            /\ lpc' = "interfaces"
       ELSE /\ lpc' = "panic"
            /\ UNCHANGED <<c, offset, i>>
    /\ UNCHANGED <<file, marks>>
    /\ UNCHANGED ovars

\* One turn of `for i in 1 .. c.interfaces_count as usize`: interfaces[i] is the
\* source's index, counted from 0, so it is element i + 1 here.
ReadInterface ==
    /\ lpc = "interfaces"
    /\ i < c.interfaces_count
    /\ IF Has(file, offset, 2)
       THEN /\ c' = [c EXCEPT !.interfaces[i + 1] = U16(file, offset)]
            /\ offset' = offset + 2
            /\ i' = i + 1
            /\ lpc' = "interfaces"
       ELSE /\ lpc' = "panic"
            /\ UNCHANGED <<c, offset, i>>
    /\ UNCHANGED <<file, marks>>
    /\ UNCHANGED ovars

\* The end of the interfaces loop.
InterfacesDone ==
    /\ lpc = "interfaces"
    /\ i >= c.interfaces_count
    /\ lpc' = "fields"
    /\ marks' = [marks EXCEPT !.fields = offset]
    /\ UNCHANGED <<file, c, offset, i>>
    /\ UNCHANGED ovars

\* offset = Class::load_xxx(&mut c, offset), for a table read by `end`.
LoadSection(at, next, end, mark) ==
    /\ lpc = at
    /\ IF end = Bad
       THEN /\ lpc' = "panic"
            /\ UNCHANGED <<offset, marks>>
       ELSE /\ lpc' = next
            /\ offset' = end
            /\ marks' = [marks EXCEPT ![mark] = end]
    /\ UNCHANGED <<file, c, i>>
    /\ UNCHANGED ovars

LoadFields == LoadSection("fields", "methods", MembersEnd(file, offset), "methods")

LoadMethods ==
    LoadSection("methods", "attributes", MembersEnd(file, offset), "attributes")

\* The last section; load then returns Some(c).
LoadAttributes == LoadSection("attributes", "some", AttributesEnd(file, offset), "end")

InitLoad ==
    /\ file \in Files \cup {NoFile}
    /\ InitLoadVars
    /\ disk = <<>> /\ loaded = {} /\ initialized = {} /\ lock = "free"
    /\ stack = <<>> /\ status = "idle" /\ obj = <<>> /\ calls = 0
    /\ events = <<>> /\ via = "none" /\ fatal = "none" /\ sets = 0
    /\ last = [op |-> "none", arg |-> "", result |-> <<>>]

NextLoad ==
    \/ Open
    \/ ReadMagic
    \/ ReadMinor
    \/ ReadMajor
    \/ LoadConstantPool
    \/ ReadAccessFlags
    \/ ReadThisClass
    \/ ReadSuperClass
    \/ ReadInterfacesCount
    \/ ReadInterface
    \/ InterfacesDone
    \/ LoadFields
    \/ LoadMethods
    \/ LoadAttributes

SpecLoad == InitLoad /\ [][NextLoad]_vars

\* ------------------------------------------------------------------------
\* The class path and the Method Area
\* ------------------------------------------------------------------------
ObjectName == "java/lang/Object"

StringName == "java/lang/String"

\* The classes the class path may hold besides java/lang/Object.
UserClasses == {"A", "B", StringName}

ClassNames == UserClasses \cup {ObjectName}

\* resolve_superclass() = None
NoSuper == "<none>"

\* Constants of a constant pool, as far as instantiate looks at them.
Utf8(text) == [tag |-> "Utf8", text |-> text]

\* Descriptors, as sequences of characters.
IntDescriptor == <<"I">>

ArrayDescriptor == <<"[", "I">>

ObjectDescriptor == <<"L", "S", ";">>

\* A field info: a name constant and a descriptor constant, both Utf8 as the
\* class-file format has them.
FieldInfo(n, d) == [name |-> Utf8(n), descriptor |-> Utf8(d)]

\* Field tables over an int, an int array and an object reference; a class
\* of the class path declares the first fields of one, MaxFields at most.
FieldTables ==
    { <<FieldInfo("x", IntDescriptor), FieldInfo("y", ArrayDescriptor),
        FieldInfo("z", ObjectDescriptor)>>,
      <<FieldInfo("y", ArrayDescriptor), FieldInfo("x", IntDescriptor),
        FieldInfo("x", ArrayDescriptor)>>,
      <<FieldInfo("y", ObjectDescriptor), FieldInfo("x", IntDescriptor),
        FieldInfo("y", IntDescriptor)>> }

FieldLists ==
    { SubSeq(t, 1, n) : t \in FieldTables, n \in 0..MaxFields }

AbsentClass == [present |-> FALSE, super |-> NoSuper, fields |-> <<>>]

ObjectClass == [present |-> TRUE, super |-> NoSuper, fields |-> <<>>]

ClassChoices ==
    { [present |-> TRUE, super |-> s, fields |-> fs] :
          s \in ClassNames, fs \in FieldLists }
    \cup {AbsentClass}

\* Class::resolve_superclass(): the name of the superclass, or None.
ResolveSuperclass(cn) == disk[cn].super

\* The classes maybe_load_class(cn) has to load: cn and its superclasses up to
\* a loaded class or a class without superclass. It fails on a class that is
\* not on the class path and on a circular chain (ClassCircularity).
RECURSIVE LoadWalk(_, _)
LoadWalk(cn, seen) ==
    IF cn \in loaded THEN [ok |-> TRUE, classes |-> seen]
    ELSE IF cn \in seen \/ cn \notin ClassNames THEN [ok |-> FALSE, classes |-> {}]
    ELSE IF ~disk[cn].present THEN [ok |-> FALSE, classes |-> {}]
    ELSE IF disk[cn].super = NoSuper THEN [ok |-> TRUE, classes |-> seen \cup {cn}]
    ELSE LoadWalk(disk[cn].super, seen \cup {cn})

\* MethodArea::maybe_load_class(cn): the Method Area afterwards.
MaybeLoadClass(cn) ==
    LET w == LoadWalk(cn, {}) IN
    IF w.ok THEN loaded \cup w.classes ELSE loaded

\* The superclasses of a loaded class, itself included.
RECURSIVE Ancestors(_, _)
Ancestors(cn, seen) ==
    IF cn = NoSuper \/ cn \in seen \/ cn \notin ClassNames THEN seen
    ELSE IF ~disk[cn].present THEN seen
    ELSE Ancestors(disk[cn].super, seen \cup {cn})

\* JvmThread::maybe_initialize_class(class): the class is initialized, its
\* superclasses first.
MaybeInitializeClass(cn) == initialized \cup Ancestors(cn, {})

\* ------------------------------------------------------------------------
\* Values and objects
\* ------------------------------------------------------------------------
\* JvmValue::Primitive(primitive, 0, 0, access_flags)
PrimitiveValue(bits) == [kind |-> "Primitive", target |-> "None", bits |-> bits]

\* JvmValue::Reference(Array(..), JvmReferenceTargetType::Array(new JvmArray(0)), 0)
EmptyArrayValue == [kind |-> "Reference", target |-> "Array", bits |-> 0]

\* create_null_value()
NullValue == [kind |-> "Reference", target |-> "Null", bits |-> 0]

\* JvmType::from(descriptor)
JvmTypeFrom(d) ==
    IF d[1] \in {"B", "C", "D", "F", "I", "J", "S", "Z"} THEN "Primitive"
    ELSE IF d[1] = "[" THEN "Array"
    ELSE "Object"

EmptyFields == [n \in {} |-> NullValue]

\* HashMap::insert
Insert(m, n, v) == [k \in DOMAIN m \cup {n} |-> IF k = n THEN v ELSE m[k]]

\* JvmObject::new(class, debug_level): one layer, no fields, spr = None. An
\* object is the sequence of its layers: layer 1 is the object itself, layer
\* k + 1 the spr of layer k.
JvmObjectNew(cn) == <<[class |-> cn, fields |-> EmptyFields]>>

\* self.spr = Some(Rc::new(object))
AttachSpr(layer, object) == <<layer>> \o object

\* JvmObject::get_field: Some(value) as <<value>>, None as <<>>.
GetFieldOf(o, n) == IF n \in DOMAIN o[1].fields THEN <<o[1].fields[n]>> ELSE <<>>

\* JvmObject::set_field
SetFieldOf(o, n, v) == [o EXCEPT ![1].fields = Insert(@, n, v)]

\* JvmObject::is_type_of
RECURSIVE IsTypeOfObject(_, _)
IsTypeOfObject(o, t) ==
    IF o[1].class = t THEN TRUE
    ELSE IF Len(o) > 1 THEN IsTypeOfObject(Tail(o), t)
    ELSE FALSE

\* JvmObject::hierarchy, as the sequence of the class names.
Hierarchy(o) == [k \in 1..Len(o) |-> o[k].class]

\* ------------------------------------------------------------------------
\* JvmObject::instantiate and its callers
\* ------------------------------------------------------------------------
\* The activation of instantiate on a new object of class cn.
Frame(cn) ==
    [ class |-> cn, pc |-> "fields", k |-> 1, fields |-> EmptyFields,
      spr |-> <<>>, superclass_name |-> NoSuper, instantiated_class |-> NoSuper ]

Top == stack[Len(stack)]

SetTop(f) == [stack EXCEPT ![Len(stack)] = f]

Running == status = "running" /\ stack # <<>>

Log(ev, cn) ==
    Append(events, [ev |-> ev, class |-> cn, depth |-> Len(stack), lock |-> lock])

\* FatalError::new(kind).call(): the process ends with a diagnostic.
FatalErrorCall(kind) ==
    /\ status' = "fatal"
    /\ fatal' = kind
    /\ UNCHANGED <<disk, loaded, initialized, lock, stack, obj, calls, events,
                   via, sets, last>>

\* A caller loads a class before it makes objects: maybe_load_class under the
\* Method Area lock.
LoadClass(cn) ==
    /\ status = "idle"
    /\ lock = "free"
    /\ MaybeLoadClass(cn) # loaded
    /\ loaded' = MaybeLoadClass(cn)
    /\ UNCHANGED <<disk, initialized, lock, stack, status, obj, calls, events,
                   via, fatal, sets, last>>
    /\ UNCHANGED lvars

\* A caller makes an object of a class it holds and instantiates it:
\* JvmObject::new(class, ..) and then object.instantiate(thread, methodarea).
NewObject(cn) ==
    /\ status = "idle"
    /\ disk[cn].present
    /\ stack' = <<Frame(cn)>>
    /\ status' = "running"
    /\ via' = "new"
    /\ calls' = 1
    /\ UNCHANGED <<disk, loaded, initialized, lock, obj, events, fatal, sets, last>>
    /\ UNCHANGED lvars

\* create_static_string_object: locks the Method Area, looks java/lang/String
\* up and instantiates an object of it while the guard is alive.
CreateStaticStringObject ==
    /\ status = "idle"
    /\ lock = "free"
    /\ IF StringName \in loaded
       THEN /\ lock' = "create_static_string_object"
            /\ stack' = <<Frame(StringName)>>
            /\ status' = "running"
            /\ via' = "create_static_string_object"
            /\ calls' = 1
            /\ UNCHANGED fatal
       ELSE /\ status' = "fatal"
            /\ fatal' = "ClassNotFound"
            /\ UNCHANGED <<lock, stack, via, calls>>
    /\ UNCHANGED <<disk, loaded, initialized, obj, events, sets, last>>
    /\ UNCHANGED lvars

\* The default value instantiate gives a field of the given type; NoValue
\* where it raises NotImplemented instead.
NoValue == [kind |-> "None", target |-> "None", bits |-> 0]

DefaultValue(type) ==
    IF type = "Primitive" THEN PrimitiveValue(0)
    ELSE IF type = "Array" THEN EmptyArrayValue
    ELSE NoValue

\* One turn of `for i in 0..fields.fields_count()`.
InstantiateField ==
    /\ Running
    /\ Top.pc = "fields"
    /\ Top.k <= Len(disk[Top.class].fields)
    /\ LET field == disk[Top.class].fields[Top.k] IN
       IF field.descriptor.tag # "Utf8"
       THEN FatalErrorCall("InvalidConstantReference")
       ELSE LET value == DefaultValue(JvmTypeFrom(field.descriptor.text)) IN
            IF value = NoValue
            THEN FatalErrorCall("NotImplemented")
            ELSE IF field.name.tag # "Utf8"
            THEN FatalErrorCall("InvalidConstantReference")
            ELSE /\ stack' = SetTop([Top EXCEPT
                                 !.fields = Insert(@, field.name.text, value),
                                 !.k = @ + 1])
                 /\ events' = Log("field", Top.class)
                 /\ UNCHANGED <<disk, loaded, initialized, lock, status, obj,
                                calls, via, fatal, sets, last>>
    /\ UNCHANGED lvars

\* MakesLayerFor without the early return for java/lang/Object.
MakesLayerForObjectToo(superclass_name) == superclass_name # NoSuper

\* Whether instantiate makes a layer for the superclass of that name.
MakesLayerFor(superclass_name) ==
    superclass_name # NoSuper /\ superclass_name # ObjectName

\* After the loop: `if let Some(superclass_name) = self.class.resolve_superclass()`
\* and the early return for java/lang/Object.
ResolveSuper ==
    /\ Running
    /\ Top.pc = "fields"
    /\ Top.k > Len(disk[Top.class].fields)
    /\ LET superclass_name == ResolveSuperclass(Top.class) IN
       stack' = SetTop([Top EXCEPT
                    !.superclass_name = superclass_name,
                    !.pc = IF MakesLayerFor(superclass_name) THEN "lock" ELSE "return"])
    /\ UNCHANGED <<disk, loaded, initialized, lock, status, obj, calls, events,
                   via, fatal, sets, last>>
    /\ UNCHANGED lvars

\* methodarea.lock(), the mutex being free. (lock() fails only on a mutex
\* poisoned by a panic of another thread; there is one thread.)
Lock ==
    /\ Running
    /\ Top.pc = "lock"
    /\ lock = "free"
    /\ lock' = "instantiate"
    /\ stack' = SetTop([Top EXCEPT !.pc = "load"])
    /\ UNCHANGED <<disk, loaded, initialized, status, obj, calls, events, via,
                   fatal, sets, last>>
    /\ UNCHANGED lvars

\* methodarea.lock(), the thread holding the mutex already: std's Mutex
\* leaves it open whether the call panics or never returns.
LockHeld ==
    /\ Running
    /\ Top.pc = "lock"
    /\ lock # "free"
    /\ status' \in {"deadlock", "panic"}
    /\ UNCHANGED <<disk, loaded, initialized, lock, stack, obj, calls, events,
                   via, fatal, sets, last>>
    /\ UNCHANGED lvars

\* maybe_load_class(&superclass_name); instantiated_class = get_class_rc(..)
LoadSuper ==
    /\ Running
    /\ Top.pc = "load"
    /\ loaded' = MaybeLoadClass(Top.superclass_name)
    /\ stack' = SetTop([Top EXCEPT
                    !.instantiated_class =
                        IF Top.superclass_name \in loaded'
                        THEN Top.superclass_name ELSE NoSuper,
                    !.pc = "unlock"])
    /\ events' = Log("load", Top.superclass_name)
    /\ UNCHANGED <<disk, initialized, lock, status, obj, calls, via, fatal, sets,
                   last>>
    /\ UNCHANGED lvars

\* Unlock with the guard kept alive past the block.
UnlockKeepsGuard ==
    /\ Running
    /\ Top.pc = "unlock"
    /\ stack' = SetTop([Top EXCEPT !.pc = "check"])
    /\ events' = Log("unlock", Top.superclass_name)
    /\ UNCHANGED <<disk, loaded, initialized, lock, status, obj, calls, via,
                   fatal, sets, last>>
    /\ UNCHANGED lvars

\* The end of the `if let Ok(mut methodarea)` block drops the guard.
Unlock ==
    /\ Running
    /\ Top.pc = "unlock"
    /\ lock' = "free"
    /\ stack' = SetTop([Top EXCEPT !.pc = "check"])
    /\ events' = Log("unlock", Top.superclass_name)
    /\ UNCHANGED <<disk, loaded, initialized, status, obj, calls, via, fatal,
                   sets, last>>
    /\ UNCHANGED lvars

\* `if let Some(instantiated_class)`: maybe_initialize_class, or ClassNotLoaded.
InitializeSuper ==
    /\ Running
    /\ Top.pc = "check"
    /\ IF Top.instantiated_class # NoSuper
       THEN /\ initialized' = MaybeInitializeClass(Top.instantiated_class)
            /\ stack' = SetTop([Top EXCEPT !.pc = "new"])
            /\ events' = Log("initialize", Top.instantiated_class)
            /\ UNCHANGED <<disk, loaded, lock, status, obj, calls, via, fatal,
                           sets, last>>
       ELSE FatalErrorCall("ClassNotLoaded")
    /\ UNCHANGED lvars

\* JvmObject::new(instantiated_class, ..) and object.instantiate(..).
InstantiateSuper ==
    /\ Running
    /\ Top.pc = "new"
    /\ stack' = Append(SetTop([Top EXCEPT !.pc = "attach"]),
                       Frame(Top.instantiated_class))
    /\ calls' = calls + 1
    /\ events' = Log("new", Top.instantiated_class)
    /\ UNCHANGED <<disk, loaded, initialized, lock, status, obj, via, fatal,
                   sets, last>>
    /\ UNCHANGED lvars

\* The object an activation has built.
Built(f) == AttachSpr([class |-> f.class, fields |-> f.fields], f.spr)

\* A nested instantiate returns true; the caller sets self.spr.
ReturnToSuper ==
    /\ Running
    /\ Top.pc = "return"
    /\ Len(stack) > 1
    /\ LET caller == stack[Len(stack) - 1] IN
       stack' = Append(SubSeq(stack, 1, Len(stack) - 2),
                       [caller EXCEPT !.spr = Built(Top), !.pc = "return"])
    /\ events' = Log("attach", Top.class)
    /\ UNCHANGED <<disk, loaded, initialized, lock, status, obj, calls, via,
                   fatal, sets, last>>
    /\ UNCHANGED lvars

\* The outermost instantiate returns true; create_static_string_object then
\* returns Some(object) and drops its guard.
Return ==
    /\ Running
    /\ Top.pc = "return"
    /\ Len(stack) = 1
    /\ obj' = Built(Top)
    /\ stack' = <<>>
    /\ status' = "returned"
    /\ lock' = "free"
    /\ UNCHANGED <<disk, loaded, initialized, calls, events, via, fatal, sets,
                   last>>
    /\ UNCHANGED lvars

\* ------------------------------------------------------------------------
\* Operations on the finished object
\* ------------------------------------------------------------------------
QueryNames == {"x", "y"}

SetValues == {PrimitiveValue(7)}

SetField(n, v) ==
    /\ status = "returned"
    /\ sets < MaxSets
    /\ obj' = SetFieldOf(obj, n, v)
    /\ sets' = sets + 1
    /\ last' = [op |-> "set_field", arg |-> n, result |-> <<v>>]
    /\ UNCHANGED <<disk, loaded, initialized, lock, stack, status, calls, events,
                   via, fatal>>
    /\ UNCHANGED lvars

GetField(n) ==
    /\ status = "returned"
    /\ last' = [op |-> "get_field", arg |-> n, result |-> GetFieldOf(obj, n)]
    /\ UNCHANGED <<disk, loaded, initialized, lock, stack, status, obj, calls,
                   events, via, fatal, sets>>
    /\ UNCHANGED lvars

IsTypeOf(t) ==
    /\ status = "returned"
    /\ last' = [op |-> "is_type_of", arg |-> t, result |-> <<IsTypeOfObject(obj, t)>>]
    /\ UNCHANGED <<disk, loaded, initialized, lock, stack, status, obj, calls,
                   events, via, fatal, sets>>
    /\ UNCHANGED lvars

NoQuery == [op |-> "none", arg |-> "", result |-> <<>>]

Init ==
    /\ file = NoFile
    /\ InitLoadVars
    /\ \E d \in [UserClasses -> ClassChoices] :
          disk = [cn \in ClassNames |-> IF cn = ObjectName THEN ObjectClass ELSE d[cn]]
    /\ loaded = {}
    /\ initialized = {}
    /\ lock = "free"
    /\ stack = <<>>
    /\ status = "idle"
    /\ obj = <<>>
    /\ calls = 0
    /\ events = <<>>
    /\ via = "none"
    /\ fatal = "none"
    /\ sets = 0
    /\ last = NoQuery

Next ==
    \/ LoadClass(StringName)    \* java/lang/String, as create_static_string_object assumes
    \/ \E cn \in ClassNames : NewObject(cn)
    \/ CreateStaticStringObject
    \/ InstantiateField
    \/ ResolveSuper
    \/ Lock
    \/ LockHeld
    \/ LoadSuper
    \/ Unlock
    \/ InitializeSuper
    \/ InstantiateSuper
    \/ ReturnToSuper
    \/ Return

Spec == Init /\ [][Next]_vars

\* instantiate and, on the finished object, set_field, get_field, is_type_of.
NextObject ==
    \/ Next
    \/ \E n \in QueryNames, v \in SetValues : SetField(n, v)
    \/ \E n \in QueryNames : GetField(n)
    \/ \E t \in ClassNames : IsTypeOf(t)

SpecObject == Init /\ [][NextObject]_vars

\* ------------------------------------------------------------------------
\* Claims about JvmObject
\* ------------------------------------------------------------------------
\* The class of the root object.
RootClass == IF status = "returned" THEN obj[1].class ELSE stack[1].class

\* The superclass chain of cn as far as it can be followed: cn, its
\* superclass, ... up to a class without superclass, java/lang/Object
\* included; it stops at a class met before.
RECURSIVE SuperChain(_, _)
SuperChain(cn, seen) ==
    IF cn = NoSuper \/ cn \in seen \/ cn \notin ClassNames THEN <<>>
    ELSE IF ~disk[cn].present THEN <<cn>>
    ELSE <<cn>> \o SuperChain(disk[cn].super, seen \cup {cn})

Range(q) == {q[k] : k \in 1..Len(q)}

\* The chain of cn closes on itself.
RECURSIVE Circular(_, _)
Circular(cn, seen) ==
    IF cn = NoSuper \/ cn \notin ClassNames THEN FALSE
    ELSE IF cn \in seen THEN TRUE
    ELSE IF ~disk[cn].present THEN FALSE
    ELSE Circular(disk[cn].super, seen \cup {cn})

\* The chain of cn is cn, S1, ..., Sn, java/lang/Object, all on the class path.
ChainToObject(cn) ==
    LET ch == SuperChain(cn, {}) IN
    /\ ~Circular(cn, {})
    /\ ch # <<>>
    /\ ch[Len(ch)] = ObjectName
    /\ \A k \in 1..Len(ch) : disk[ch[k]].present

\* The classes of the chain of cn below java/lang/Object.
BelowObject(cn) ==
    LET ch == SuperChain(cn, {}) IN
    SubSeq(ch, 1, Len(ch) - 1)

\* The names of the fields a class declares.
DeclaredNames(cn) ==
    {disk[cn].fields[k].name.text : k \in 1..Len(disk[cn].fields)}

\* The value the specification gives a field of a type by default.
SpecifiedDefault(type) ==
    IF type = "Primitive" THEN PrimitiveValue(0) ELSE NullValue

\* C2: after instantiate every declared field of the class is in the field
\* map with the default of its type: 0 for a primitive, Null for a reference
\* (object or array).
C2_FieldsDefaulted ==
    (status = "returned" /\ sets = 0)
        => \A k \in 1..Len(disk[obj[1].class].fields) :
              LET field == disk[obj[1].class].fields[k] IN
              /\ field.name.text \in DOMAIN obj[1].fields
              /\ (\A j \in (k + 1)..Len(disk[obj[1].class].fields) :
                     disk[obj[1].class].fields[j].name # field.name)
                    => obj[1].fields[field.name.text] =
                           SpecifiedDefault(JvmTypeFrom(field.descriptor.text))

\* The value of field n in the first layer of o that has it.
RECURSIVE LookupThroughLayers(_, _)
LookupThroughLayers(o, n) ==
    IF o = <<>> THEN <<>>
    ELSE IF n \in DOMAIN o[1].fields THEN <<o[1].fields[n]>>
    ELSE LookupThroughLayers(Tail(o), n)

\* C3: get_field returns the field's current value whether the field is in
\* the object's own field map or in the map of a super-object layer.
C3_GetFieldWalksLayers ==
    last.op = "get_field" => last.result = LookupThroughLayers(obj, last.arg)

\* C4: is_type_of(T) is true exactly when T is the class of the object or a
\* class of its superclass chain, java/lang/Object, its root, included.
C4_TypeOfChain ==
    last.op = "is_type_of"
        => last.result = <<last.arg \in Range(SuperChain(obj[1].class, {}))>>

Ended == status \in {"returned", "fatal", "deadlock", "panic"}

\* C6: instantiate of an object made by a caller ends in a failure when the
\* superclass chain of its class is circular, and never runs more nested
\* calls than there are classes; on a chain of n classes below
\* java/lang/Object it returns true after exactly n calls.
C6_TerminatesOnEveryChain ==
    via = "new" =>
        /\ calls <= Cardinality(ClassNames)
        /\ (Ended /\ Circular(RootClass, {})) => status = "fatal"
        /\ (Ended /\ ChainToObject(RootClass) /\ RootClass # ObjectName)
              => (status = "returned" /\ calls = Len(BelowObject(RootClass)))

LayerEvents(cn) ==
    SelectSeq(events, LAMBDA e : e.class = cn /\ (e.ev # "field" \/ e.depth > 1))

\* The pairs of steps that may follow one another for one superclass.
StepOrder ==
    { <<"load", "unlock">>, <<"unlock", "initialize">>, <<"initialize", "new">>,
      <<"new", "field">>, <<"field", "field">>, <<"new", "attach">>,
      <<"field", "attach">> }

\* C9: for each superclass the steps of instantiate come in the order
\* maybe_load_class under the lock, release of the lock,
\* maybe_initialize_class, construction and instantiation of the layer,
\* attachment as spr; a layer's class is initialized before its fields are
\* made; and the lock instantiate took is held by the running activation only
\* between its lock and its unlock, so neither during maybe_initialize_class
\* nor during the nested instantiate.
C9_SuperclassStepsInOrder ==
    /\ \A cn \in ClassNames :
          LET q == LayerEvents(cn) IN
          /\ q # <<>> => (q[1].ev = "load" /\ cn # ObjectName)
          /\ \A k \in 1..(Len(q) - 1) : <<q[k].ev, q[k + 1].ev>> \in StepOrder
    /\ \A k \in 1..Len(events) :
          /\ events[k].ev = "load" => events[k].lock = "instantiate"
          /\ events[k].ev \in {"initialize", "new", "field", "attach"}
                => events[k].lock # "instantiate"
    /\ \A k \in 2..Len(stack) : stack[k].class \in initialized
    /\ lock = "instantiate"
          => (stack # <<>> /\ Top.pc \in {"load", "unlock"})

\* C9 witness: a superclass layer went through all its steps, fields included.
C9_LayerAttached ==
    \E cn \in ClassNames :
        LET q == LayerEvents(cn) IN
        /\ Len(q) >= 6
        /\ q[Len(q)].ev = "attach"
        /\ q[5].ev = "field"

\* C10: while create_static_string_object holds the Method Area lock,
\* instantiate never comes to its own methodarea.lock(), whatever superclass
\* the registered java/lang/String declares.
C10_NoLockWhileHeld ==
    (via = "create_static_string_object" /\ status = "running")
        => Top.pc # "lock"

\* ------------------------------------------------------------------------
\* Claims about Class::load
\* ------------------------------------------------------------------------
\* Class::load is past its interfaces loop.
PastInterfaces == lpc \in {"fields", "methods", "attributes", "some"}

\* The file is a whole class file that starts with 0xCAFEBABE.
WellFormed == file \in WholeFiles /\ SubSeq(file, 1, 4) = CafeBabeBytes

\* The offset of the first interface entry: after the pool, access_flags,
\* this_class, super_class and interfaces_count.
InterfacesStart == marks.pool_end + 8

\* C1: once load has read the interfaces of a class file, c.interfaces has
\* interfaces_count elements and its element of index k (from 0) is the
\* big-endian value of the k-th entry that follows interfaces_count.
C1_AllInterfacesRead ==
    (PastInterfaces /\ WellFormed)
        => /\ Len(c.interfaces) = c.interfaces_count
           /\ \A k \in 0..(c.interfaces_count - 1) :
                 c.interfaces[k + 1] = U16(file, InterfacesStart + 2 * k)

\* C5: load returns Some(class) only for a file whose magic is 0xCAFEBABE and
\* that is long enough for every field load read.
C5_SomeOnlyForGoodMagic ==
    lpc = "some" => (c.magic = CafeBabe /\ marks.end <= Len(file))

\* C7: the sections of a class file are read with no gap or overlap: the
\* fields start 8 bytes and interfaces_count entries of 2 bytes after the end
\* of the pool, for every interfaces_count, and methods and attributes follow
\* on.
C7_FieldsStartAfterInterfaces ==
    /\ (PastInterfaces /\ WellFormed)
          => marks.fields = marks.pool_end + 2 + 2 + 2 + 2 + 2 * c.interfaces_count
    /\ lpc = "some"
          => marks.fields <= marks.methods /\ marks.methods <= marks.attributes

====
